---- MODULE Spec2Model ----
(***************************************************************************)
(* Analytical cycle models of AsmKernelProjection:                         *)
(*   src/400/pa.py  attention model, generation A (names suffixed _400)    *)
(*   src/pa.py      attention model, generation B                          *)
(*   src/gemm.py    FP8xFP8 GEMM tile model                                *)
(*                                                                         *)
(* Python numbers are modelled exactly.  An int is an integer.  A float    *)
(* whose value is a dyadic rational (every "/" of the attention models and *)
(* every "/" of gemm.py but one divides by a power of two, and all values  *)
(* stay far below 2^53) is the reduced fraction [n, d]: IEEE arithmetic is *)
(* exact on these.  The one rounded quotient, LDS_CAP_BYTES / total_lds,   *)
(* is modelled by FloatDiv with its rounding error.                        *)
(***************************************************************************)
EXTENDS Integers, Sequences, FiniteSets, TLC

VARIABLES
    module,            \* which script runs: "pa400", "pa" or "gemm"
    pc,                \* "start" before the call, "done" after it
    fn,                \* the function that was called ("none" before the call)
    raised,            \* the exception that left the call, or "none"
    qtile, kv_tile,    \* attention arguments
    co_exe,            \* print_performance_table argument
    is_packed_arg,     \* the is_packed argument as passed by the caller
    is_packed,         \* the local is_packed (print_performance_table rebinds it)
    softmax_metrics,   \* local of print_performance_table / value of softmax
    gemm_cycles,       \* local of print_performance_table / value of gemm
    softmax_total, tot_cycles, tot_cycles_coexe,
    tile_m, tile_n, tile_k,   \* fp8fp8_tile_metrics arguments
    configs,           \* fp8fp8_table argument, a sequence of TileConfig
    pandas_available,  \* whether "import pandas" succeeds in this environment
    metrics,           \* value of fp8fp8_tile_metrics (empty mapping: nothing returned)
    table,             \* value of fp8fp8_table
    table_kind         \* "DataFrame", "dict", or "none" when nothing was returned

vars == <<module, pc, fn, raised, qtile, kv_tile, co_exe, is_packed_arg, is_packed,
          softmax_metrics, gemm_cycles, softmax_total, tot_cycles, tot_cycles_coexe,
          tile_m, tile_n, tile_k, configs, pandas_available, metrics, table, table_kind>>

attention_vars == <<qtile, kv_tile, co_exe, is_packed_arg>>
attention_locals == <<is_packed, softmax_metrics, gemm_cycles, softmax_total,
                      tot_cycles, tot_cycles_coexe>>
gemm_vars == <<tile_m, tile_n, tile_k, configs, pandas_available>>
gemm_results == <<metrics, table, table_kind>>

(***************************************************************************)
(* Bounds of the model.                                                    *)
(***************************************************************************)
MaxTile == 4        \* attention tiles range over -MaxTile..MaxTile and the examples
MaxTileM == 3       \* tile_m ranges over -1..MaxTileM and the example 64
MaxBlocks == 2      \* tile_n, tile_k range over half-granules up to 2*MaxBlocks
MaxConfigs == 2     \* longest config sequence given to fp8fp8_table

(***************************************************************************)
(* Exact arithmetic on Python numbers.                                     *)
(***************************************************************************)
Abs(x) == IF x < 0 THEN -x ELSE x

RECURSIVE GCD(_, _)
GCD(a, b) == IF b = 0 THEN a ELSE GCD(b, a % b)

\* the reduced fraction n/d, d # 0, with a positive denominator
RNorm(n, d) ==
    LET g == GCD(Abs(n), Abs(d))
        s == IF d < 0 THEN -1 ELSE 1
    IN  [n |-> (s * n) \div g, d |-> (s * d) \div g]

RInt(i) == [n |-> i, d |-> 1]
RAdd(x, y) == RNorm(x.n * y.d + y.n * x.d, x.d * y.d)
RSub(x, y) == RNorm(x.n * y.d - y.n * x.d, x.d * y.d)
RMul(x, y) == RNorm(x.n * y.n, x.d * y.d)
RDiv(x, y) == RNorm(x.n * y.d, x.d * y.n)
REq(x, y) == x.n * y.d = y.n * x.d
RLe(x, y) == x.n * y.d <= y.n * x.d
RLt(x, y) == x.n * y.d < y.n * x.d
RMax(x, y) == IF RLt(x, y) THEN y ELSE x
\* Python's x // y on floats of integer-representable size: floor of the quotient
RFloorDiv(x, y) == LET q == RDiv(x, y) IN RInt(q.n \div q.d)

(***************************************************************************)
(* src/400/pa.py: attention cycle model, generation A.                     *)
(***************************************************************************)
MMA_THROUGHPUT_400 == RDiv(RInt(16 * 16 * 128 * 2), RInt(8))
HEAD_SIZE_400 == 128
WARP_SIZE_400 == 32
VOP_RATE == 1
DEP_VOP_RATE == 5
TRANS_RATE == 2
DEP_TRANS_RATE == 8

\* qtile written twice
gemm_400_qq(q, kv) ==
    LET ops == q * q * kv * HEAD_SIZE_400 * 2 * 2
        cycles == RDiv(RInt(ops), MMA_THROUGHPUT_400)
    IN  cycles

gemm_400(q, kv) ==
    LET ops == q * kv * HEAD_SIZE_400 * 2 * 2
        cycles == RDiv(RInt(ops), MMA_THROUGHPUT_400)
    IN  cycles

\* x / 2 if packed else x
Halved(x, packed) == IF packed THEN RDiv(x, RInt(2)) ELSE x

\* the max3 pass halved in packed mode as well
softmax_400_packed_max(q, kv, packed) ==
    LET s_elems == RDiv(RInt(q * kv), RInt(WARP_SIZE_400))
        dequant == RMul(Halved(s_elems, packed), RInt(VOP_RATE))
        intra_max == RMul(RDiv(Halved(s_elems, packed), RInt(2)), RInt(VOP_RATE))
        inter_max == RMul(RDiv(RInt(4 * q), RInt(16)), RInt(VOP_RATE))
        fma == Halved(s_elems, packed)
        exp == s_elems
        softmax_fma_exp == RAdd(RMul(fma, RInt(VOP_RATE)), RMul(exp, RInt(TRANS_RATE)))
        softmax_sum == RMul(Halved(s_elems, packed), RInt(VOP_RATE))
        quant_scale == Halved(s_elems, packed)
        cvt == Halved(s_elems, packed)
        s_quant == RAdd(RMul(quant_scale, RInt(VOP_RATE)), RMul(cvt, RInt(VOP_RATE)))
        out_elems == RDiv(RInt(q * HEAD_SIZE_400), RInt(WARP_SIZE_400))
        recompute_output == RMul(RMul(Halved(out_elems, packed), RInt(2)), RInt(VOP_RATE))
    IN  [dequant |-> dequant,
         intra_max |-> intra_max,
         inter_max |-> inter_max,
         softmax_fma_exp |-> softmax_fma_exp,
         softmax_sum |-> softmax_sum,
         s_quant |-> s_quant,
         recompute_output |-> recompute_output]

softmax_400(q, kv, packed) ==
    LET s_elems == RDiv(RInt(q * kv), RInt(WARP_SIZE_400))
        dequant == RMul(Halved(s_elems, packed), RInt(VOP_RATE))
        intra_max == RMul(RDiv(s_elems, RInt(2)), RInt(VOP_RATE))
        inter_max == RMul(RDiv(RInt(4 * q), RInt(16)), RInt(VOP_RATE))
        fma == Halved(s_elems, packed)
        exp == s_elems
        softmax_fma_exp == RAdd(RMul(fma, RInt(VOP_RATE)), RMul(exp, RInt(TRANS_RATE)))
        softmax_sum == RMul(Halved(s_elems, packed), RInt(VOP_RATE))
        quant_scale == Halved(s_elems, packed)
        cvt == Halved(s_elems, packed)
        s_quant == RAdd(RMul(quant_scale, RInt(VOP_RATE)), RMul(cvt, RInt(VOP_RATE)))
        out_elems == RDiv(RInt(q * HEAD_SIZE_400), RInt(WARP_SIZE_400))
        recompute_output == RMul(RMul(Halved(out_elems, packed), RInt(2)), RInt(VOP_RATE))
    IN  [dequant |-> dequant,
         intra_max |-> intra_max,
         inter_max |-> inter_max,
         softmax_fma_exp |-> softmax_fma_exp,
         softmax_sum |-> softmax_sum,
         s_quant |-> s_quant,
         recompute_output |-> recompute_output]

\* sum(softmax_metrics.values()): 0 plus the values in insertion order
sum_values_400(m) ==
    RAdd(RAdd(RAdd(RAdd(RAdd(RAdd(RAdd(RInt(0), m.dequant), m.intra_max), m.inter_max),
         m.softmax_fma_exp), m.softmax_sum), m.s_quant), m.recompute_output)

\* a floor at the GEMM cost, which the source does not apply
coexe_total_400_clamped(g, total) ==
    RMax(g, RAdd(g, RDiv(RSub(total, RDiv(RMul(g, RInt(3)), RInt(4))), RInt(2))))

\* tot_cycles_coexe = gemm_cycles + (softmax_total - gemm_cycles * 3 / 4) / 2
coexe_total_400(g, total) ==
    RAdd(g, RDiv(RSub(total, RDiv(RMul(g, RInt(3)), RInt(4))), RInt(2)))

\* without "if co_exe: is_packed = False"
print_performance_table_400_no_override(q, kv, coexe, packed) ==
    LET sm == softmax_400(q, kv, packed)
        g == gemm_400(q, kv)
        total == sum_values_400(sm)
    IN  [is_packed |-> packed,
         softmax_metrics |-> sm,
         gemm_cycles |-> g,
         softmax_total |-> total,
         tot_cycles |-> RAdd(g, total),
         tot_cycles_coexe |-> coexe_total_400(g, total)]

\* the locals of print_performance_table when it reaches its print statements
print_performance_table_400(q, kv, coexe, packed) ==
    LET packed_local == IF coexe THEN FALSE ELSE packed
        sm == softmax_400(q, kv, packed_local)
        g == gemm_400(q, kv)
        total == sum_values_400(sm)
    IN  [is_packed |-> packed_local,
         softmax_metrics |-> sm,
         gemm_cycles |-> g,
         softmax_total |-> total,
         tot_cycles |-> RAdd(g, total),
         tot_cycles_coexe |-> coexe_total_400(g, total)]

(***************************************************************************)
(* src/pa.py: attention cycle model, generation B.                         *)
(***************************************************************************)
MMA_THROUGHPUT == RDiv(RInt(16 * 16 * 32 * 2), RInt(16))
HEAD_SIZE == 128
WARP_SIZE == 64
ISSUE_CYCLES == 4
EXP_ISSUE_CYCLES == ISSUE_CYCLES * 4

\* the operation count taken as a magnitude
gemm_abs(q, kv) ==
    LET ops == Abs(q * kv) * HEAD_SIZE * 2 * 2
        cycles == RDiv(RInt(ops), MMA_THROUGHPUT)
    IN  cycles

gemm(q, kv) ==
    LET ops == q * kv * HEAD_SIZE * 2 * 2
        cycles == RDiv(RInt(ops), MMA_THROUGHPUT)
    IN  cycles

softmax(q, kv, packed) ==
    LET s_elems == RDiv(RInt(q * kv), RInt(WARP_SIZE))
        intra_max == RMul(RDiv(s_elems, RInt(2)), RInt(ISSUE_CYCLES))
        inter_max == RAdd(RInt(250 + 84 + 112),
                          RDiv(RMul(RDiv(RInt(q), RInt(16)), RInt(4)), RInt(2)))
        fma == Halved(s_elems, packed)
        exp == s_elems
        softmax_fma_exp == RAdd(RMul(fma, RInt(ISSUE_CYCLES)),
                                RMul(exp, RInt(EXP_ISSUE_CYCLES)))
        softmax_sum == RMul(Halved(s_elems, packed), RInt(ISSUE_CYCLES))
        quant_scale == Halved(s_elems, packed)
        cvt == Halved(s_elems, packed)
        s_quant == RAdd(RMul(quant_scale, RInt(ISSUE_CYCLES)),
                        RMul(RMul(cvt, RInt(ISSUE_CYCLES)), RInt(2)))
        reshape_s == RAdd(RAdd(RMul(RDiv(s_elems, RInt(4)), RInt(8)), RInt(100)),
                          RMul(RDiv(s_elems, RInt(4)), RInt(32)))
        out_elems == RDiv(RDiv(RInt(q * HEAD_SIZE), RInt(4)), RInt(WARP_SIZE))
        recompute_output == RMul(Halved(out_elems, packed), RInt(ISSUE_CYCLES))
    IN  [intra_max |-> intra_max,
         inter_max |-> inter_max,
         softmax_fma_exp |-> softmax_fma_exp,
         softmax_sum |-> softmax_sum,
         s_quant |-> s_quant,
         reshape_s |-> reshape_s,
         recompute_output |-> recompute_output]

sum_values(m) ==
    RAdd(RAdd(RAdd(RAdd(RAdd(RAdd(RAdd(RInt(0), m.intra_max), m.inter_max),
         m.softmax_fma_exp), m.softmax_sum), m.s_quant), m.reshape_s), m.recompute_output)

\* the remainder doubled instead of halved
coexe_total_doubled(g, total) ==
    RAdd(g, RMul(RSub(total, RDiv(RMul(g, RInt(3)), RInt(4))), RInt(2)))

\* tot_cycles_coexe = gemm_cycles + (softmax_total - gemm_cycles * 3 / 4) / 2
coexe_total(g, total) ==
    RAdd(g, RDiv(RSub(total, RDiv(RMul(g, RInt(3)), RInt(4))), RInt(2)))

\* without "if co_exe: is_packed = False"
print_performance_table_no_override(q, kv, coexe, packed) ==
    LET sm == softmax(q, kv, packed)
        g == gemm(q, kv)
        total == sum_values(sm)
    IN  [is_packed |-> packed,
         softmax_metrics |-> sm,
         gemm_cycles |-> g,
         softmax_total |-> total,
         tot_cycles |-> RAdd(g, total),
         tot_cycles_coexe |-> coexe_total(g, total)]

print_performance_table(q, kv, coexe, packed) ==
    LET packed_local == IF coexe THEN FALSE ELSE packed
        sm == softmax(q, kv, packed_local)
        g == gemm(q, kv)
        total == sum_values(sm)
    IN  [is_packed |-> packed_local,
         softmax_metrics |-> sm,
         gemm_cycles |-> g,
         softmax_total |-> total,
         tot_cycles |-> RAdd(g, total),
         tot_cycles_coexe |-> coexe_total(g, total)]

(***************************************************************************)
(* Python's float division a / b where the quotient is not representable:  *)
(* the double nearest to a/b (round half to even).  a > 0, b # 0.  The     *)
(* double is a/b + err / (b * 2^(52 - exp)), with 2^exp <= a/|b| < 2^(exp+1)*)
(* and err the rounding error of the 53-bit significand, computed with     *)
(* remainders only so that no intermediate exceeds 32 bits.                *)
(***************************************************************************)
RECURSIVE Pow2(_)
Pow2(e) == IF e = 0 THEN 1 ELSE 2 * Pow2(e - 1)

\* (a * 2^s) % m
RECURSIVE ShiftMod(_, _, _)
ShiftMod(a, s, m) == IF s = 0 THEN a % m ELSE (2 * ShiftMod(a, s - 1, m)) % m

\* floor(log2(a / b)) for a, b > 0
RECURSIVE Log2Ratio(_, _)
Log2Ratio(a, b) ==
    IF a >= 2 * b THEN 1 + Log2Ratio(a, 2 * b)
    ELSE IF a < b THEN Log2Ratio(2 * a, b) - 1
    ELSE 0

FloatDiv(a, b) ==
    LET ab == Abs(b)
        j == Log2Ratio(a, ab)
        r == ShiftMod(a, 52 - j, ab)
        odd == ShiftMod(a, 52 - j, 2 * ab) >= ab    \* parity of the truncated significand
        up == 2 * r > ab \/ (2 * r = ab /\ odd)
    IN  [num |-> a, den |-> b, exp |-> j, err |-> IF up THEN ab - r ELSE -r]

(***************************************************************************)
(* src/gemm.py: FP8xFP8 GEMM tile model.                                   *)
(***************************************************************************)
BLOCK_SIZE == 32
A_LDS_PAD == 16
LDS_CAP_BYTES == 320 * 1024
LDS_BYTES_PER_CYCLE == 128
F8_MFMA_THROUGHPUT == RDiv(RInt(16 * 16 * 128), RInt(8))

TileConfig(m, n, k) == [m |-> m, n |-> n, k |-> k]

\* TileConfig.name
name(cfg) == ToString(cfg.m) \o "x" \o ToString(cfg.n) \o "x" \o ToString(cfg.k)

\* the check inverted
RequireDivisibleRaisesInverted(x, d) == x % d = 0

\* TRUE when _require_divisible(x, d, what) raises ValueError
RequireDivisibleRaises(x, d) == x % d # 0

\* the pad added once instead of per row
a_lds_unparenthesised(m, k) == m * k + A_LDS_PAD

\* a_lds = tile_m * (tile_k + A_LDS_PAD)
a_lds_of(m, k) == m * (k + A_LDS_PAD)

\* [raised, metrics]: the exception that leaves fp8fp8_tile_metrics, or its value
fp8fp8_tile_metrics(m, n, k) ==
    IF RequireDivisibleRaises(k, 32) \/ RequireDivisibleRaises(n, 16)
    THEN [raised |-> "ValueError", metrics |-> <<>>]
    ELSE
    LET a_lds == a_lds_of(m, k)
        b_lds == k * n
        a_scale == (m * k) \div BLOCK_SIZE
        b_scale == (n * k) \div BLOCK_SIZE
        scale == a_scale + b_scale
        total_lds == a_lds + b_lds + scale
        compute_cycles == RDiv(RDiv(RInt(m * n * k), RInt(4)), F8_MFMA_THROUGHPUT)
        tdm_a == m
        tdm_b == (n * k) \div 256
        tdm_issue_time == tdm_a + tdm_b
        lds_a_inst == (m * k) \div 512
        lds_b_inst == RFloorDiv(RMul(RDiv(RInt(n), RInt(4)), RInt(k)), RInt(512))
        lds_scale_inst ==
            RFloorDiv(RAdd(RDiv(RInt(m * k), RInt(32)),
                           RDiv(RDiv(RInt(n * k), RInt(4)), RInt(32))), RInt(128))
        lds_1x4 == a_lds + b_lds \div 4
        lds_1x4_time == RDiv(RInt(lds_1x4), RInt(LDS_BYTES_PER_CYCLE))
        acc_reg == RMul(RDiv(RDiv(RDiv(RInt(m * n), RInt(4)), RInt(16)), RInt(16)), RInt(8))
        a_regs == RMul(RDiv(RDiv(RInt(m * k), RInt(16)), RInt(128)), RInt(16))
        b_regs == RMul(RDiv(RDiv(RMul(RDiv(RInt(n), RInt(4)), RInt(k)), RInt(16)),
                            RInt(128)), RInt(16))
        reg_per_msb == RAdd(RDiv(acc_reg, RInt(4)), RDiv(RMax(a_regs, b_regs), RInt(2)))
    IN  IF total_lds = 0
        THEN [raised |-> "ZeroDivisionError", metrics |-> <<>>]
        ELSE [raised |-> "none",
              metrics |->
                  ("tilem" :> m) @@ ("tilen" :> n) @@ ("tilek" :> k) @@
                  ("compute cycles" :> compute_cycles) @@
                  ("A lds" :> a_lds) @@ ("B lds" :> b_lds) @@
                  ("scale" :> scale) @@ ("Total lds" :> total_lds) @@
                  ("lds a inst" :> lds_a_inst) @@ ("lds b inst" :> lds_b_inst) @@
                  ("lds scale inst" :> lds_scale_inst) @@
                  ("max lds stage" :> FloatDiv(LDS_CAP_BYTES, total_lds)) @@
                  ("wave lds latency time" :> lds_1x4_time) @@
                  ("TDM A" :> tdm_a) @@ ("TDM B" :> tdm_b) @@
                  ("TDM issue time" :> tdm_issue_time) @@
                  ("acc reg" :> acc_reg) @@ ("a regs" :> a_regs) @@
                  ("b regs" :> b_regs) @@ ("reg per msb" :> reg_per_msb)]

row_order ==
    << "tilem", "tilen", "tilek",
       "compute cycles",
       "A lds", "B lds", "scale", "Total lds",
       "lds a inst", "lds b inst", "lds scale inst",
       "max lds stage", "wave lds latency time",
       "TDM A", "TDM B", "TDM issue time",
       "acc reg", "a regs", "b regs", "reg per msb" >>

Range(seq) == {seq[i] : i \in DOMAIN seq}

\* the rows taken from the computed columns instead of row_order
table_rows_from_cols(names, cols) ==
    [row \in UNION {DOMAIN cols[nm] : nm \in names} |-> [nm \in names |-> cols[nm][row]]]

\* table = {row: {cfg.name: cols[cfg.name].get(row) for cfg in configs} for row in row_order}
table_of(names, cols) ==
    [row \in Range(row_order) |-> [nm \in names |-> cols[nm][row]]]

\* [raised, table, kind]: the exception that leaves fp8fp8_table, or its value.
\* The table maps each row of row_order to a mapping from config name to value;
\* it is returned as a pandas DataFrame (rows x configs) when pandas imports and
\* the column assignment succeeds, and as the dict of dicts otherwise.
fp8fp8_table(cfgs, pandas) ==
    LET results == [i \in DOMAIN cfgs |-> fp8fp8_tile_metrics(cfgs[i].m, cfgs[i].n, cfgs[i].k)]
        failing == {i \in DOMAIN cfgs : results[i].raised # "none"}
        first == CHOOSE i \in failing : \A j \in failing : i <= j
        names == {name(cfgs[i]) : i \in DOMAIN cfgs}
        \* cols[cfg.name]: a later config of the same name overwrites an earlier one
        cols == [nm \in names |->
                    LET last == CHOOSE i \in DOMAIN cfgs :
                                    /\ name(cfgs[i]) = nm
                                    /\ \A j \in DOMAIN cfgs : name(cfgs[j]) = nm => j <= i
                    IN  results[last].metrics]
        tbl == table_of(names, cols)
        \* df.columns = [cfg.name for cfg in configs] raises on a length mismatch,
        \* which the except clause turns into the dict
        frame == pandas /\ Cardinality(names) = Len(cfgs)
    IN  IF failing # {}
        THEN [raised |-> results[first].raised, table |-> <<>>, kind |-> "none"]
        ELSE [raised |-> "none", table |-> tbl,
              kind |-> IF frame THEN "DataFrame" ELSE "dict"]

(***************************************************************************)
(* The inputs the model explores.                                          *)
(***************************************************************************)
QTiles == (-MaxTile .. MaxTile) \cup {16, 32, 48, 64}
KVTiles == (-MaxTile .. MaxTile) \cup {32, 64, 128}
TileMs == (-1 .. MaxTileM) \cup {64}
TileNs == {8 * i : i \in -2 .. 2 * MaxBlocks} \cup {256, 512}
TileKs == {16 * i : i \in -2 .. 2 * MaxBlocks} \cup {128, 256}
ConfigPool == {TileConfig(64, 256, 128), TileConfig(64, 512, 128),
               TileConfig(64, 256, 256), TileConfig(1, 24, 32)}
ConfigSeqs == UNION {[1 .. l -> ConfigPool] : l \in 0 .. MaxConfigs}

Init ==
    /\ pc = "start" /\ fn = "none" /\ raised = "none"
    /\ softmax_metrics = <<>> /\ gemm_cycles = <<>> /\ softmax_total = <<>>
    /\ tot_cycles = <<>> /\ tot_cycles_coexe = <<>>
    /\ metrics = <<>> /\ table = <<>> /\ table_kind = "none"
    /\ \/ /\ module \in {"pa400", "pa"}
          /\ qtile \in QTiles /\ kv_tile \in KVTiles
          /\ co_exe \in BOOLEAN /\ is_packed_arg \in BOOLEAN
          /\ tile_m = 0 /\ tile_n = 0 /\ tile_k = 0
          /\ configs = <<>> /\ pandas_available = FALSE
       \/ /\ module = "gemm"
          /\ qtile = 0 /\ kv_tile = 0 /\ co_exe = FALSE /\ is_packed_arg = FALSE
          /\ pandas_available \in BOOLEAN
          /\ \/ /\ tile_m \in TileMs /\ tile_n \in TileNs /\ tile_k \in TileKs
                /\ configs = <<>>
             \/ /\ tile_m = 64 /\ tile_n = 256 /\ tile_k = 128
                /\ configs \in ConfigSeqs
    /\ is_packed = is_packed_arg

Finish(f) ==
    /\ pc = "start"
    /\ pc' = "done"
    /\ fn' = f
    /\ UNCHANGED <<module, attention_vars, gemm_vars>>

\* src/400/pa.py gemm(qtile, kv_tile)
Gemm400 ==
    /\ module = "pa400"
    /\ Finish("gemm")
    /\ gemm_cycles' = gemm_400(qtile, kv_tile)
    /\ UNCHANGED <<raised, is_packed, softmax_metrics, softmax_total, tot_cycles,
                   tot_cycles_coexe, gemm_results>>

\* src/400/pa.py softmax(qtile, kv_tile, is_packed)
Softmax400 ==
    /\ module = "pa400"
    /\ Finish("softmax")
    /\ softmax_metrics' = softmax_400(qtile, kv_tile, is_packed)
    /\ UNCHANGED <<raised, is_packed, gemm_cycles, softmax_total, tot_cycles,
                   tot_cycles_coexe, gemm_results>>

\* src/400/pa.py print_performance_table(qtile, kv_tile, co_exe, is_packed)
PrintPerformanceTable400 ==
    /\ module = "pa400"
    /\ Finish("print_performance_table")
    /\ LET r == print_performance_table_400(qtile, kv_tile, co_exe, is_packed)
       IN  /\ is_packed' = r.is_packed
           /\ softmax_metrics' = r.softmax_metrics
           /\ gemm_cycles' = r.gemm_cycles
           /\ softmax_total' = r.softmax_total
           /\ tot_cycles' = r.tot_cycles
           /\ tot_cycles_coexe' = r.tot_cycles_coexe
    /\ UNCHANGED <<raised, gemm_results>>

\* src/pa.py gemm(qtile, kv_tile)
Gemm ==
    /\ module = "pa"
    /\ Finish("gemm")
    /\ gemm_cycles' = gemm(qtile, kv_tile)
    /\ UNCHANGED <<raised, is_packed, softmax_metrics, softmax_total, tot_cycles,
                   tot_cycles_coexe, gemm_results>>

\* src/pa.py softmax(qtile, kv_tile, is_packed)
Softmax ==
    /\ module = "pa"
    /\ Finish("softmax")
    /\ softmax_metrics' = softmax(qtile, kv_tile, is_packed)
    /\ UNCHANGED <<raised, is_packed, gemm_cycles, softmax_total, tot_cycles,
                   tot_cycles_coexe, gemm_results>>

\* src/pa.py print_performance_table(qtile, kv_tile, co_exe, is_packed)
PrintPerformanceTable ==
    /\ module = "pa"
    /\ Finish("print_performance_table")
    /\ LET r == print_performance_table(qtile, kv_tile, co_exe, is_packed)
       IN  /\ is_packed' = r.is_packed
           /\ softmax_metrics' = r.softmax_metrics
           /\ gemm_cycles' = r.gemm_cycles
           /\ softmax_total' = r.softmax_total
           /\ tot_cycles' = r.tot_cycles
           /\ tot_cycles_coexe' = r.tot_cycles_coexe
    /\ UNCHANGED <<raised, gemm_results>>

\* src/gemm.py fp8fp8_tile_metrics(tile_m, tile_n, tile_k)
Fp8Fp8TileMetrics ==
    /\ module = "gemm"
    /\ Finish("fp8fp8_tile_metrics")
    /\ LET r == fp8fp8_tile_metrics(tile_m, tile_n, tile_k)
       IN  /\ raised' = r.raised
           /\ metrics' = r.metrics
    /\ UNCHANGED <<attention_locals, table, table_kind>>

\* src/gemm.py fp8fp8_table(configs)
Fp8Fp8Table ==
    /\ module = "gemm"
    /\ Finish("fp8fp8_table")
    /\ LET r == fp8fp8_table(configs, pandas_available)
       IN  /\ raised' = r.raised
           /\ table' = r.table
           /\ table_kind' = r.kind
    /\ UNCHANGED <<attention_locals, metrics>>

Next ==
    \/ Gemm400
    \/ Softmax400
    \/ PrintPerformanceTable400
    \/ Gemm
    \/ Softmax
    \/ PrintPerformanceTable
    \/ Fp8Fp8TileMetrics
    \/ Fp8Fp8Table

Spec == Init /\ [][Next]_vars

(***************************************************************************)
(* Properties.                                                             *)
(***************************************************************************)
Attention == module \in {"pa400", "pa"}
Called(f) == pc = "done" /\ fn = f
Sign(x) == IF x.n > 0 THEN 1 ELSE IF x.n < 0 THEN -1 ELSE 0
IntSign(i) == IF i > 0 THEN 1 ELSE IF i < 0 THEN -1 ELSE 0

\* the sum of a breakdown's values, whatever its keys
RECURSIVE SumOver(_, _)
SumOver(m, keys) ==
    IF keys = {} THEN RInt(0)
    ELSE LET k == CHOOSE k \in keys : TRUE
         IN  RAdd(m[k], SumOver(m, keys \ {k}))
BreakdownSum == SumOver(softmax_metrics, DOMAIN softmax_metrics)

MmaOf == IF module = "pa400" THEN MMA_THROUGHPUT_400 ELSE MMA_THROUGHPUT
HeadOf == IF module = "pa400" THEN HEAD_SIZE_400 ELSE HEAD_SIZE
GemmOf(q, kv) == IF module = "pa400" THEN gemm_400(q, kv) ELSE gemm(q, kv)

\* The double nearest to x * x.den, for x = FloatDiv(a, b) and a not a power of
\* two, as a distance from a in units in the last place of a: the exact product
\* is a + x.err / 2^(52 - x.exp), and one unit of a is 2^(floor(log2 a) - 52).
ProductUlps(x) ==
    LET sh == Pow2(Log2Ratio(x.num, 1) - x.exp)
        q == x.err \div sh
        rem == x.err - q * sh
    IN  IF 2 * rem < sh THEN q
        ELSE IF 2 * rem > sh THEN q + 1
        ELSE IF q % 2 = 0 THEN q ELSE q + 1

ValidPositive == tile_m > 0 /\ tile_n > 0 /\ tile_k > 0 /\ tile_k % 32 = 0 /\ tile_n % 16 = 0

\* C1: whenever tile_k is not divisible by 32 or tile_n is not divisible by 16,
\* fp8fp8_tile_metrics leaves with the configuration error (ValueError) and
\* returns no metrics mapping, not even a partial one.
C1_DivisibilityError ==
    (Called("fp8fp8_tile_metrics") /\ (tile_k % 32 # 0 \/ tile_n % 16 # 0))
        => (raised = "ValueError" /\ DOMAIN metrics = {})

C1_Witness ==
    /\ Called("fp8fp8_tile_metrics")
    /\ tile_k % 32 = 0 /\ tile_n % 16 # 0 /\ tile_m > 0
    /\ raised = "ValueError"

\* C2 as stated: for every valid positive config the metrics satisfy
\* A lds = tile_m*(tile_k+16), B lds = tile_k*tile_n, Total lds = A lds + B lds +
\* scale, and 'max lds stage' * 'Total lds' is exactly 320*1024.
C2_Original ==
    (Called("fp8fp8_tile_metrics") /\ ValidPositive) =>
        /\ raised = "none"
        /\ metrics["A lds"] = tile_m * (tile_k + 16)
        /\ metrics["B lds"] = tile_k * tile_n
        /\ metrics["Total lds"] = metrics["A lds"] + metrics["B lds"] + metrics["scale"]
        /\ ProductUlps(metrics["max lds stage"]) = 0
        /\ (tile_m = 64 /\ tile_n = 256 /\ tile_k = 128
               => metrics["A lds"] = 9216 /\ metrics["B lds"] = 32768)

\* C2 amended: for every valid positive config the metrics satisfy
\* A lds = tile_m*(tile_k+16), B lds = tile_k*tile_n, Total lds = A lds + B lds +
\* scale, and 'max lds stage' is the double nearest to 320*1024 / 'Total lds', so
\* that 'max lds stage' * 'Total lds' is within one unit in the last place of
\* 320*1024; (64,256,128) gives A lds = 9216 and B lds = 32768.
C2_LdsFootprint ==
    (Called("fp8fp8_tile_metrics") /\ ValidPositive) =>
        /\ raised = "none"
        /\ metrics["A lds"] = tile_m * (tile_k + 16)
        /\ metrics["B lds"] = tile_k * tile_n
        /\ metrics["Total lds"] = metrics["A lds"] + metrics["B lds"] + metrics["scale"]
        /\ metrics["max lds stage"].num = 320 * 1024
        /\ metrics["max lds stage"].den = metrics["Total lds"]
        /\ 2 * Abs(metrics["max lds stage"].err) <= metrics["Total lds"]
        /\ ProductUlps(metrics["max lds stage"]) \in {-1, 0, 1}
        /\ (tile_m = 64 /\ tile_n = 256 /\ tile_k = 128
               => metrics["A lds"] = 9216 /\ metrics["B lds"] = 32768)

C2_Witness ==
    /\ Called("fp8fp8_tile_metrics") /\ ValidPositive
    /\ raised = "none"
    /\ ProductUlps(metrics["max lds stage"]) # 0

\* C3: in both attention variants print_performance_table computes
\* gemm_cycles = qtile*kv_tile*head_size*2*2 / MMA throughput,
\* total = gemm_cycles + sum of the breakdown, and co-execution total =
\* gemm_cycles + (sum - 0.75*gemm_cycles)/2 (that is, 8*coexec = 5*gemm + 4*sum),
\* with no floor applied.
C3_Totals ==
    (Attention /\ Called("print_performance_table")) =>
        /\ REq(RMul(gemm_cycles, MmaOf), RInt(qtile * kv_tile * HeadOf * 2 * 2))
        /\ REq(softmax_total, BreakdownSum)
        /\ REq(tot_cycles, RAdd(gemm_cycles, BreakdownSum))
        /\ REq(RMul(RInt(8), tot_cycles_coexe),
               RAdd(RMul(RInt(5), gemm_cycles), RMul(RInt(4), BreakdownSum)))

\* a co-execution total below the GEMM cost alone: a floor would have changed it
C3_Witness ==
    /\ module = "pa400" /\ Called("print_performance_table")
    /\ RLt(tot_cycles_coexe, gemm_cycles)

\* C4: in generation A, with co_exe requested, the breakdown, total and
\* co-execution total are those of the call with the other value of is_packed:
\* packed mode is forced off.
C4_PackedForcedOff ==
    (module = "pa400" /\ Called("print_performance_table") /\ co_exe) =>
        LET other == print_performance_table_400(qtile, kv_tile, TRUE, ~is_packed_arg)
        IN  /\ is_packed = FALSE
            /\ softmax_metrics = other.softmax_metrics
            /\ tot_cycles = other.tot_cycles
            /\ tot_cycles_coexe = other.tot_cycles_coexe

C4_Witness ==
    /\ module = "pa400" /\ Called("print_performance_table")
    /\ co_exe /\ is_packed_arg /\ qtile > 0 /\ kv_tile > 0
    /\ softmax_metrics = softmax_400(qtile, kv_tile, FALSE)

NonPositiveTile == qtile <= 0 \/ kv_tile <= 0
ComputesGemm == fn \in {"gemm", "print_performance_table"}
ComputesSoftmax == fn \in {"softmax", "print_performance_table"}
\* the components that are multiples of lane_elements = qtile*kv_tile/wave width
Proportional == {"dequant", "intra_max", "softmax_fma_exp", "softmax_sum", "s_quant"}

\* C6 as stated: with a zero or negative qtile or kv_tile neither variant raises,
\* and gemm_cycles and every value of the breakdown are zero or negative.
C6_Original ==
    (Attention /\ pc = "done" /\ NonPositiveTile) =>
        /\ raised = "none"
        /\ ComputesGemm => gemm_cycles.n <= 0
        /\ ComputesSoftmax => \A k \in DOMAIN softmax_metrics : softmax_metrics[k].n <= 0

\* C6 amended: with a zero or negative qtile or kv_tile neither variant raises and
\* softmax returns all seven components; gemm_cycles and the components
\* proportional to lane_elements have the sign of qtile*kv_tile (zero or negative
\* when a tile is zero or exactly one is negative, positive when both are
\* negative); recompute_output, and generation A's inter_max, have the sign of
\* qtile; generation B's inter_max and reshape_s carry the constants 446 and 100.
C6_DegenerateInputs ==
    (Attention /\ pc = "done" /\ NonPositiveTile) =>
        /\ raised = "none"
        /\ ComputesGemm => Sign(gemm_cycles) = IntSign(qtile * kv_tile)
        /\ ComputesSoftmax =>
              /\ Cardinality(DOMAIN softmax_metrics) = 7
              /\ \A k \in Proportional \cap DOMAIN softmax_metrics :
                     Sign(softmax_metrics[k]) = IntSign(qtile * kv_tile)
              /\ Sign(softmax_metrics.recompute_output) = IntSign(qtile)
              /\ module = "pa400" => Sign(softmax_metrics.inter_max) = IntSign(qtile)
              /\ module = "pa" =>
                    /\ REq(softmax_metrics.inter_max, RAdd(RInt(446), RNorm(qtile, 8)))
                    /\ REq(softmax_metrics.reshape_s,
                           RAdd(RInt(100), RNorm(10 * qtile * kv_tile, 64)))

C6_Witness ==
    /\ module = "pa" /\ Called("print_performance_table")
    /\ qtile < 0 /\ kv_tile < 0
    /\ gemm_cycles.n > 0 /\ softmax_metrics.softmax_sum.n > 0

EmptyCall == Called("fp8fp8_table") /\ configs = <<>>

\* C7 as stated: fp8fp8_table of an empty config sequence raises nothing and
\* returns a table with no rows and no config columns.
C7_Original ==
    EmptyCall =>
        /\ raised = "none"
        /\ DOMAIN table = {}
        /\ \A row \in DOMAIN table : DOMAIN table[row] = {}

\* C7 amended: fp8fp8_table of an empty config sequence raises nothing and returns
\* a table that has the twenty rows of row_order, each with no config column.
C7_EmptyConfigs ==
    EmptyCall =>
        /\ raised = "none"
        /\ table_kind \in {"DataFrame", "dict"}
        /\ DOMAIN table = Range(row_order)
        /\ Cardinality(DOMAIN table) = 20
        /\ \A row \in DOMAIN table : DOMAIN table[row] = {}

C7_Witness ==
    /\ EmptyCall /\ raised = "none"
    /\ "Total lds" \in DOMAIN table /\ table["Total lds"] = <<>>

\* C8 as stated: in both variants, for every kv_tile and q1 <= q2,
\* gemm(q1, kv_tile) <= gemm(q2, kv_tile).
C8_Original ==
    (Attention /\ Called("gemm")) =>
        \A q1 \in QTiles : q1 <= qtile => RLe(GemmOf(q1, kv_tile), gemm_cycles)

\* C8 amended: in both variants, for every kv_tile >= 0 and q1 <= q2,
\* gemm(q1, kv_tile) <= gemm(q2, kv_tile); for a negative kv_tile the order is
\* reversed.
C8_Monotone ==
    (Attention /\ Called("gemm")) =>
        \A q1 \in QTiles :
            /\ (q1 <= qtile /\ kv_tile >= 0) => RLe(GemmOf(q1, kv_tile), gemm_cycles)
            /\ (q1 <= qtile /\ kv_tile < 0) => RLe(gemm_cycles, GemmOf(q1, kv_tile))

C8_Witness ==
    /\ module = "pa400" /\ Called("gemm")
    /\ kv_tile > 0 /\ qtile > 1
    /\ RLt(gemm_400(qtile - 1, kv_tile), gemm_cycles)

\* C9: in generation A, for positive tiles, packing halves dequant, softmax_sum,
\* s_quant and recompute_output, lowers softmax_fma_exp by half of its fma term
\* lane_elements*VOP_RATE only, and leaves intra_max = (lane_elements/2)*VOP_RATE
\* and inter_max = (4*qtile/16)*VOP_RATE as they are.
C9_PackedHalves ==
    (module = "pa400" /\ Called("softmax") /\ qtile > 0 /\ kv_tile > 0) =>
        LET lane == RNorm(qtile * kv_tile, 32)
            other == softmax_400(qtile, kv_tile, ~is_packed)
            p == IF is_packed THEN softmax_metrics ELSE other
            u == IF is_packed THEN other ELSE softmax_metrics
            Twice(x) == RMul(RInt(2), x)
        IN  /\ \A k \in {"dequant", "softmax_sum", "s_quant", "recompute_output"} :
                   REq(Twice(p[k]), u[k]) /\ u[k].n > 0
            /\ REq(Twice(RSub(u.softmax_fma_exp, p.softmax_fma_exp)), RMul(lane, RInt(1)))
            /\ REq(p.softmax_fma_exp, RAdd(RDiv(lane, RInt(2)), RMul(lane, RInt(2))))
            /\ REq(p.intra_max, RDiv(lane, RInt(2))) /\ REq(u.intra_max, RDiv(lane, RInt(2)))
            /\ REq(p.inter_max, RNorm(4 * qtile, 16)) /\ REq(u.inter_max, RNorm(4 * qtile, 16))

C9_Witness ==
    /\ module = "pa400" /\ Called("softmax")
    /\ qtile = 16 /\ kv_tile = 128 /\ is_packed
    /\ softmax_metrics.dequant = RInt(32)

\* C10: in both variants, for positive tiles and either is_packed,
\* gemm_cycles <= co-execution total <= total, and the breakdown sum exceeds
\* 0.75*gemm_cycles.
C10_CoexeBetween ==
    (Attention /\ Called("print_performance_table") /\ qtile > 0 /\ kv_tile > 0) =>
        /\ RLe(gemm_cycles, tot_cycles_coexe)
        /\ RLe(tot_cycles_coexe, tot_cycles)
        /\ RLt(RMul(RNorm(3, 4), gemm_cycles), softmax_total)

C10_Witness ==
    /\ module = "pa" /\ Called("print_performance_table")
    /\ qtile > 0 /\ kv_tile > 0 /\ is_packed
    /\ RLt(gemm_cycles, tot_cycles_coexe) /\ RLt(tot_cycles_coexe, tot_cycles)

====
